---------------------------- MODULE Spec2Model ----------------------------
(***************************************************************************)
(* The prospect interest form (src/prospect_interest_form.py): a Streamlit *)
(* script that is run from top to bottom once per user interaction.  The   *)
(* state that survives a run is st.session_state (the step indicator and   *)
(* the responses dict); what a run puts on the page (warning, download     *)
(* button, uncaught exception) is kept as the view of the last run.        *)
(*                                                                         *)
(* Python values are tagged records, so that None, "" and a missing key    *)
(* stay distinct.  A Python string is a sequence of tokens: a typed        *)
(* character is one token, a string literal of the source is one token.    *)
(* The source's U+2013 (en dash) is spelled {U+2013} inside a token.       *)
(***************************************************************************)
EXTENDS Integers, Sequences, FiniteSets, TLC

VARIABLES session_state, warning, download, exception

vars == <<session_state, warning, download, exception>>

---------------------------------------------------------------------------
(* Bounds of the model *)

MaxConcernLen == 1
MaxEmailLen == 2
MaxPhoneLen == 1
MaxDay == 2

---------------------------------------------------------------------------
(* Python values *)

None == [t |-> "NoneType"]
PyStr(s) == [t |-> "str", v |-> s]
PyInt(n) == [t |-> "int", v |-> n]
PyBool(b) == [t |-> "bool", v |-> b]

\* truth value testing, as used by `not x`, `x or y`, `a if x else b`
Truthy(x) ==
    CASE x.t = "NoneType" -> FALSE
      [] x.t = "str" -> x.v # <<>>
      [] x.t = "int" -> x.v # 0
      [] x.t = "bool" -> x.v

PyOr(x, y) == IF Truthy(x) THEN x ELSE y

Digit == <<"1", "2", "3", "4", "5", "6", "7", "8", "9">>

RECURSIVE IntStr(_)
IntStr(n) ==
    IF n < 10 THEN <<IF n = 0 THEN "0" ELSE Digit[n]>>
    ELSE IntStr(n \div 10) \o <<IF n % 10 = 0 THEN "0" ELSE Digit[n % 10]>>

\* what an f-string replacement field {x} inserts: str(x)
Format(x) ==
    CASE x.t = "NoneType" -> <<"None">>
      [] x.t = "str" -> x.v
      [] x.t = "int" -> IntStr(x.v)
      [] x.t = "bool" -> IF x.v THEN <<"True">> ELSE <<"False">>

\* the characters a user types: a blank and a digit, and in the text area
\* also a character outside latin-1 (the euro sign)
Euro == "{U+20AC}"
Chars == {" ", "5"}
Whitespace == {" "}

Texts(alphabet, n) == UNION {[1..k -> alphabet] : k \in 0..n}

RECURSIVE lstrip(_)
lstrip(s) ==
    IF s # <<>> /\ Head(s) \in Whitespace THEN lstrip(Tail(s)) ELSE s

RECURSIVE rstrip(_)
rstrip(s) ==
    IF s # <<>> /\ s[Len(s)] \in Whitespace
    THEN rstrip(SubSeq(s, 1, Len(s) - 1)) ELSE s

\* mutant of strip: only leading whitespace is removed
strip_LeftOnly(x) == PyStr(lstrip(x.v))

\* str.strip()
strip(x) == PyStr(rstrip(lstrip(x.v)))

\* dict
EmptyDict == [k \in {} |-> None]
get(d, k) == IF k \in DOMAIN d THEN d[k] ELSE None
\* mutant of update: the new answers replace the dict instead of merging
update_Replace(d, e) == e

\* mutant of update: a key the dict already holds keeps its old value
update_KeepExisting(d, e) ==
    [k \in DOMAIN d \cup DOMAIN e |-> IF k \in DOMAIN d THEN d[k] ELSE e[k]]

update(d, e) ==
    [k \in DOMAIN d \cup DOMAIN e |-> IF k \in DOMAIN e THEN e[k] ELSE d[k]]

RECURSIVE join(_, _)
join(sep, lines) ==
    IF lines = <<>> THEN <<>>
    ELSE IF Len(lines) = 1 THEN lines[1]
    ELSE lines[1] \o sep \o join(sep, Tail(lines))

---------------------------------------------------------------------------
(* The widgets' options *)

Situations ==
    << "Looking for help with personal or family taxes",
       "Need guidance on business or self-employment taxes",
       "Exploring tax planning or year-end strategies",
       "Dealing with a recent life event that may affect taxes (for myself or a family member)",
       "Other / just exploring CPA services",
       "Not sure yet {U+2013} want to discuss options" >>

Timelines ==
    << "Immediately / within the next 30 days",
       "Within the next 3{U+2013}6 months",
       "No firm timeline yet {U+2013} gathering information",
       "Just researching for future reference" >>

MinComplexity == 1
MaxComplexity == 5

ContactPrefs ==
    << "Email", "Phone call", "Video call (Zoom/Teams)", "No preference" >>

Range(f) == {f[i] : i \in DOMAIN f}

\* values the step-1 form can submit
SituationValues == {PyStr(<<s>>) : s \in Range(Situations)}
TimelineValues == {PyStr(<<s>>) : s \in Range(Timelines)}
ComplexityValues == {PyInt(n) : n \in MinComplexity..MaxComplexity}

\* values the step-2 form can submit
ConcernValues == {PyStr(s) : s \in Texts(Chars \cup {Euro}, MaxConcernLen)}
ContactPrefValues == {PyStr(<<s>>) : s \in Range(ContactPrefs)}
EmailValues == {PyStr(s) : s \in Texts(Chars, MaxEmailLen)}
PhoneValues == {PyStr(s) : s \in Texts(Chars, MaxPhoneLen)}
ConfirmValues == {PyBool(b) : b \in BOOLEAN}

---------------------------------------------------------------------------
(* The calendar date read by date.today() and its strftime("%B %d, %Y") *)

Dates == {[year |-> 2026, month |-> 11, day |-> d] : d \in 1..MaxDay}

MonthName ==
    << "January", "February", "March", "April", "May", "June", "July",
       "August", "September", "October", "November", "December" >>

\* date.today() is read in a step-3 run only (line 168) and used only when
\* Generate was clicked; every other run is given this date
AnyDate == CHOOSE d \in Dates : TRUE

strftime(d) ==
    <<MonthName[d.month], " ">>
    \o (IF d.day < 10 THEN <<"0">> ELSE <<>>) \o IntStr(d.day)
    \o <<", ">> \o IntStr(d.year)

---------------------------------------------------------------------------
(* The renderer *)

\* tokens that str.encode('latin-1') cannot encode: the typed euro sign and
\* the option labels that contain an en dash
NonLatin1 == {Euro, Situations[6], Timelines[2], Timelines[3]}

encodable(text) == \A i \in 1..Len(text) : text[i] \notin NonLatin1

UnicodeEncodeError == [t |-> "UnicodeEncodeError"]

\* mutant of create_summary_pdf: encode('latin-1', 'ignore') drops what it
\* cannot encode
create_summary_pdf_EncodeIgnore(summary_text, today) ==
    LET keep(tok) == tok \notin NonLatin1
        title == <<"Prospective Client Interest Summary">>
        body == <<"\n", "Date: ">> \o today
                \o <<"\n", "\n",
                     "This is a preliminary summary from the initial interest form.",
                     "\n", "\n", "Summary of responses:", "\n">>
                \o summary_text
                \o <<"\n", "\n",
                     "Note: This is not a formal engagement or signed document.",
                     "\n",
                     "No sensitive or identifying information was collected.",
                     "\n", "\n",
                     "Next steps will be discussed after review.", "\n">>
    IN  [t |-> "BytesIO", title |-> title, body |-> SelectSeq(body, keep)]

create_summary_pdf(summary_text, today) ==
    LET title == <<"Prospective Client Interest Summary">>
        body == <<"\n", "Date: ">> \o today
                \o <<"\n", "\n",
                     "This is a preliminary summary from the initial interest form.",
                     "\n", "\n", "Summary of responses:", "\n">>
                \o summary_text
                \o <<"\n", "\n",
                     "Note: This is not a formal engagement or signed document.",
                     "\n",
                     "No sensitive or identifying information was collected.",
                     "\n", "\n",
                     "Next steps will be discussed after review.", "\n">>
    IN  IF encodable(title \o body)
        THEN [t |-> "BytesIO", title |-> title, body |-> body]
        ELSE UnicodeEncodeError

\* mutant of summary_lines: the Phone line reads the email entry
summary_lines_PhoneFromEmail(resp) ==
    << <<"Reason for reaching out: ">> \o Format(get(resp, "situation")),
       <<"Timeline: ">> \o Format(get(resp, "timeline")),
       <<"Complexity level: ">> \o Format(get(resp, "complexity")) \o <<"/5">>,
       <<"Main concern: ">>
           \o Format(PyOr(get(resp, "main_concern"), PyStr(<<"None provided">>))),
       <<"Preferred contact: ">> \o Format(get(resp, "contact_pref")),
       <<"Email: ">>
           \o Format(PyOr(get(resp, "email"), PyStr(<<"Not provided">>))),
       <<"Phone: ">>
           \o Format(PyOr(get(resp, "email"), PyStr(<<"Not provided">>))) >>

summary_lines(resp) ==
    << <<"Reason for reaching out: ">> \o Format(get(resp, "situation")),
       <<"Timeline: ">> \o Format(get(resp, "timeline")),
       <<"Complexity level: ">> \o Format(get(resp, "complexity")) \o <<"/5">>,
       <<"Main concern: ">>
           \o Format(PyOr(get(resp, "main_concern"), PyStr(<<"None provided">>))),
       <<"Preferred contact: ">> \o Format(get(resp, "contact_pref")),
       <<"Email: ">>
           \o Format(PyOr(get(resp, "email"), PyStr(<<"Not provided">>))),
       <<"Phone: ">>
           \o Format(PyOr(get(resp, "phone"), PyStr(<<"Not provided">>))) >>

download_button(pdf_bytes, today_str) ==
    [ t |-> "download_button",
      data |-> pdf_bytes,
      file_name |-> <<"CPA_Interest_Summary_">> \o today_str \o <<".pdf">>,
      mime |-> "application/pdf" ]

---------------------------------------------------------------------------
(* One run of the script.  ev is the widget event that triggered the run   *)
(* (a button returns True only in the run its own click triggered), today  *)
(* is the date the clock shows.  The result is the session state the run   *)
(* leaves and the page it shows.                                           *)

NoEvent == [widget |-> "none"]

Page(ss, w, d, e) ==
    [session_state |-> ss, warning |-> w, download |-> d, exception |-> e]

\* lines 46-49
SessionInit(ss) ==
    [k \in DOMAIN ss \cup {"step", "responses"} |->
        IF k \in DOMAIN ss THEN ss[k]
        ELSE IF k = "step" THEN 1 ELSE EmptyDict]

\* mutant of Step1Answers: the timeline entry is filled from the wrong widget
Step1Answers_TimelineFromSituation(situation, timeline, complexity) ==
    [situation |-> situation, timeline |-> situation, complexity |-> complexity]

Step1Answers(situation, timeline, complexity) ==
    [situation |-> situation, timeline |-> timeline, complexity |-> complexity]

Step2Answers(main_concern, contact_pref, email, phone, interest_confirm) ==
    [ main_concern |-> main_concern,
      contact_pref |-> contact_pref,
      email |-> IF Truthy(strip(email)) THEN strip(email) ELSE None,
      phone |-> IF Truthy(strip(phone)) THEN strip(phone) ELSE None,
      interest_confirm |-> interest_confirm ]

RECURSIVE Run(_, _, _)

\* mutant of ContinueClicked: the wizard jumps over step 2
ContinueClicked_SkipsStep2(ss, ev, today) ==
    Run([ss EXCEPT
           !.responses = update(@, Step1Answers(ev.situation, ev.timeline,
                                                ev.complexity)),
           !.step = 3], NoEvent, today)

\* lines 84-91
ContinueClicked(ss, ev, today) ==
    Run([ss EXCEPT
           !.responses = update(@, Step1Answers(ev.situation, ev.timeline,
                                                ev.complexity)),
           !.step = 2], NoEvent, today)

\* lines 51-91
Step1(ss, ev, today) ==
    IF ev.widget = "Continue"
    THEN ContinueClicked(ss, ev, today)
    ELSE Page(ss, FALSE, None, None)

\* mutant of BackClicked: going back throws the answers away
BackClicked_ClearsRecord(ss, today) ==
    Run([ss EXCEPT !.step = 1, !.responses = EmptyDict], NoEvent, today)

\* lines 126-128
BackClicked(ss, today) ==
    Run([ss EXCEPT !.step = 1], NoEvent, today)

\* mutant of SubmitFinal: the confirmation check does not stop the submit
SubmitFinal_AdvancesUnconfirmed(ss, ev, today) ==
    Run([ss EXCEPT
           !.responses = update(@, Step2Answers(ev.main_concern,
                            ev.contact_pref, ev.email, ev.phone,
                            ev.interest_confirm)),
           !.step = 3], NoEvent, today)

\* mutant of SubmitFinal: the form is saved before the confirmation check
SubmitFinal_SavesBeforeCheck(ss, ev, today) ==
    LET saved == [ss EXCEPT
                    !.responses = update(@, Step2Answers(ev.main_concern,
                                     ev.contact_pref, ev.email, ev.phone,
                                     ev.interest_confirm))]
    IN  IF ~Truthy(ev.interest_confirm)
        THEN Page(saved, TRUE, None, None)
        ELSE Run([saved EXCEPT !.step = 3], NoEvent, today)

\* lines 132-144
SubmitFinal(ss, ev, today) ==
    IF ~Truthy(ev.interest_confirm)
    THEN Page(ss, TRUE, None, None)
    ELSE Run([ss EXCEPT
                !.responses = update(@, Step2Answers(ev.main_concern,
                                 ev.contact_pref, ev.email, ev.phone,
                                 ev.interest_confirm)),
                !.step = 3], NoEvent, today)

\* lines 93-144
Step2(ss, ev, today) ==
    IF ev.widget = "Back"
    THEN BackClicked(ss, today)
    ELSE IF ev.widget = "Review & Generate Summary"
    THEN SubmitFinal(ss, ev, today)
    ELSE Page(ss, FALSE, None, None)

\* mutant of Generated: the rendered document is kept in st.session_state
Generated_StoresPdf(ss, pdf_bytes, today_str) ==
    Page(update(ss, [pdf_bytes |-> pdf_bytes]), FALSE,
         download_button(pdf_bytes, today_str), None)

\* lines 184-192: the page of a successful Generate run; nothing is written
\* to st.session_state
Generated(ss, pdf_bytes, today_str) ==
    Page(ss, FALSE, download_button(pdf_bytes, today_str), None)

\* lines 194-197: delete every key of st.session_state and rerun
StartOverClicked(ss, today) == Run(EmptyDict, NoEvent, today)

\* lines 146-197
Step3(ss, ev, today) ==
    LET resp == ss.responses
        today_str == strftime(today)
    IN  IF ev.widget = "Generate Summary PDF & Finish"
        THEN LET summary_text == join(<<"\n">>, summary_lines(resp))
                 pdf_bytes == create_summary_pdf(summary_text, today_str)
             IN  IF pdf_bytes = UnicodeEncodeError
                 THEN Page(ss, FALSE, None, UnicodeEncodeError)
                 ELSE IF ev.widget = "Start Over (new prospect)"
                 THEN StartOverClicked(ss, today)
                 ELSE Generated(ss, pdf_bytes, today_str)
        ELSE Page(ss, FALSE, None, None)

Run(ss0, ev, today) ==
    LET ss == SessionInit(ss0)
    IN  IF ss.step = 1 THEN Step1(ss, ev, today)
        ELSE IF ss.step = 2 THEN Step2(ss, ev, today)
        ELSE IF ss.step = 3 THEN Step3(ss, ev, today)
        ELSE Page(ss, FALSE, None, None)

---------------------------------------------------------------------------
(* The state machine: one action per widget the user can operate *)

step == session_state.step
responses == session_state.responses

Show(page) ==
    /\ session_state' = page.session_state
    /\ warning' = page.warning
    /\ download' = page.download
    /\ exception' = page.exception

\* the first run of a new session
Init ==
    LET page == Run(EmptyDict, NoEvent, AnyDate)
    IN  /\ session_state = page.session_state
        /\ warning = page.warning
        /\ download = page.download
        /\ exception = page.exception

ContinueEvent(situation, timeline, complexity) ==
    [widget |-> "Continue", situation |-> situation, timeline |-> timeline,
     complexity |-> complexity]

Step2Event(button, main_concern, contact_pref, email, phone, interest_confirm) ==
    [widget |-> button, main_concern |-> main_concern,
     contact_pref |-> contact_pref, email |-> email, phone |-> phone,
     interest_confirm |-> interest_confirm]

Continue ==
    /\ step = 1
    /\ \E situation \in SituationValues, timeline \in TimelineValues,
          complexity \in ComplexityValues :
          Show(Run(session_state,
                   ContinueEvent(situation, timeline, complexity), AnyDate))

Back ==
    /\ step = 2
    /\ \E main_concern \in ConcernValues, contact_pref \in ContactPrefValues,
          email \in EmailValues, phone \in PhoneValues,
          interest_confirm \in ConfirmValues :
          Show(Run(session_state,
                   Step2Event("Back", main_concern, contact_pref, email, phone,
                              interest_confirm), AnyDate))

Submit ==
    /\ step = 2
    /\ \E main_concern \in ConcernValues, contact_pref \in ContactPrefValues,
          email \in EmailValues, phone \in PhoneValues,
          interest_confirm \in ConfirmValues :
          Show(Run(session_state,
                   Step2Event("Review & Generate Summary", main_concern,
                              contact_pref, email, phone, interest_confirm),
                   AnyDate))

GenerateEvent == [widget |-> "Generate Summary PDF & Finish"]

GenerateOn(today) ==
    /\ step = 3
    /\ Show(Run(session_state, GenerateEvent, today))

Generate == \E today \in Dates : GenerateOn(today)

StartOverEvent == [widget |-> "Start Over (new prospect)"]

\* the Start Over button exists only on the page of a successful Generate run
StartOver ==
    /\ step = 3
    /\ download # None
    /\ Show(Run(session_state, StartOverEvent, AnyDate))

\* the download button exists only on the page of a successful Generate run
Download ==
    /\ step = 3
    /\ download # None
    /\ Show(Run(session_state, [widget |-> "download_button"], AnyDate))

Next == Continue \/ Back \/ Submit \/ Generate \/ StartOver \/ Download

Spec == Init /\ [][Next]_vars

---------------------------------------------------------------------------
(* Properties *)

Step1Keys == {"situation", "timeline", "complexity"}
Step2Keys == {"main_concern", "contact_pref", "email", "phone",
              "interest_confirm"}

SubmitEvent(main_concern, contact_pref, email, phone, interest_confirm) ==
    Step2Event("Review & Generate Summary", main_concern, contact_pref,
               email, phone, interest_confirm)

\* C1 (handler): in every reachable step-2 state, a Submit whose
\* interest_confirm is false leaves st.session_state (step 2 and the record)
\* exactly as it was and shows the warning, whatever the other fields hold.
C1_RejectedSubmitHandler ==
    step = 2 =>
        \A main_concern \in ConcernValues, contact_pref \in ContactPrefValues,
           email \in EmailValues, phone \in PhoneValues :
            LET page == Run(session_state,
                            SubmitEvent(main_concern, contact_pref, email,
                                        phone, PyBool(FALSE)), AnyDate)
            IN  /\ page.session_state = session_state
                /\ page.session_state.step = 2
                /\ page.warning = TRUE
                /\ page.exception = None

\* C1: a Step-2 Submit with interest_confirm = false never moves the wizard
\* to step 3: the step is still 2 and the record is unchanged, only the
\* warning is shown; and no step from step 2 that ends with the warning on
\* the page changes the step or the record.
C1_RejectedSubmitStaysOnStep2 ==
    /\ []C1_RejectedSubmitHandler
    /\ [][(step = 2 /\ warning') => session_state' = session_state]_vars

\* C1 witness: a rejected Submit has happened (the warning is on the page of
\* step 2, the step-1 answers are in the record)
C1_Witness ==
    /\ step = 2
    /\ warning = TRUE
    /\ DOMAIN responses = Step1Keys

\* C2: whenever the step indicator is 3, the record holds the step-1 fields,
\* the step-2 fields and interest_confirm = True.
C2_Step3RecordComplete ==
    step = 3 =>
        /\ Step1Keys \cup Step2Keys \subseteq DOMAIN responses
        /\ responses.interest_confirm = PyBool(TRUE)

\* C2 witness: step 3 is reached
C2_Witness == step = 3 /\ download = None /\ exception = None

BackEvent(main_concern, contact_pref, email, phone, interest_confirm) ==
    Step2Event("Back", main_concern, contact_pref, email, phone,
               interest_confirm)

\* C3 (handler): in every reachable step-1 state, Continue with any
\* enumerated situation and timeline and any complexity in 1..5 succeeds:
\* the run ends on step 2 without warning or exception and the record holds
\* exactly the three submitted values.
C3_ContinueHandler ==
    step = 1 =>
        \A situation \in SituationValues, timeline \in TimelineValues,
           complexity \in ComplexityValues :
            LET page == Run(session_state,
                            ContinueEvent(situation, timeline, complexity),
                            AnyDate)
            IN  /\ page.session_state.step = 2
                /\ page.warning = FALSE
                /\ page.exception = None
                /\ page.session_state.responses.situation = situation
                /\ page.session_state.responses.timeline = timeline
                /\ page.session_state.responses.complexity = complexity

\* C3: every valid Step-1 Continue moves the step from 1 to 2 and stores the
\* three submitted values, and the step from 2 to 3 (the confirmed Submit)
\* leaves these three values unchanged in the record.
C3_Step1ValuesRetained ==
    /\ []C3_ContinueHandler
    /\ [][(step = 2 /\ step' = 3) =>
            \A k \in Step1Keys : responses'[k] = responses[k]]_vars

\* C3 witness: step 3 reached with step-1 values that are not the widgets'
\* defaults
C3_Witness ==
    /\ step = 3
    /\ responses.situation = PyStr(<<Situations[6]>>)
    /\ responses.timeline = PyStr(<<Timelines[4]>>)
    /\ responses.complexity = PyInt(MaxComplexity)

Blank(s) == \A i \in 1..Len(s) : s[i] \in Whitespace

\* s without its leading and trailing whitespace, for a s that is not blank
Trimmed(s) ==
    LET first == CHOOSE i \in 1..Len(s) :
                    s[i] \notin Whitespace /\ \A k \in 1..(i - 1) : s[k] \in Whitespace
        last == CHOOSE j \in 1..Len(s) :
                    s[j] \notin Whitespace /\ \A k \in (j + 1)..Len(s) : s[k] \in Whitespace
    IN  SubSeq(s, first, last)

Normalized(x) == IF Blank(x.v) THEN None ELSE PyStr(Trimmed(x.v))

\* C4: after a confirmed Step-2 Submit the record's email (phone) is None
\* exactly when the entered text is empty or whitespace-only and otherwise
\* the entered text without its surrounding whitespace; and in every
\* reachable state the record's email and phone, when present, are None or a
\* string that is not empty or whitespace-only.
C4_ContactNormalized ==
    /\ step = 2 =>
        \A main_concern \in ConcernValues, contact_pref \in ContactPrefValues,
           email \in EmailValues, phone \in PhoneValues :
            LET page == Run(session_state,
                            SubmitEvent(main_concern, contact_pref, email,
                                        phone, PyBool(TRUE)), AnyDate)
            IN  /\ page.session_state.step = 3
                /\ page.session_state.responses.email = Normalized(email)
                /\ page.session_state.responses.phone = Normalized(phone)
    /\ \A k \in {"email", "phone"} \cap DOMAIN responses :
            \/ responses[k] = None
            \/ responses[k].t = "str" /\ ~Blank(responses[k].v)

\* C4 witness: a confirmed Submit has stored a blank email as None and a
\* phone number as text
C4_Witness ==
    /\ step = 3
    /\ responses.email = None
    /\ responses.phone = PyStr(<<"5">>)

\* C5: Start Over pressed at step 3 after a PDF has been generated resets
\* the session: the step indicator becomes 1, the record becomes empty and
\* the page is the fresh step-1 page.
C5_StartOverResets ==
    [][StartOver =>
        /\ step' = 1
        /\ responses' = EmptyDict
        /\ download' = None]_vars

\* C6: Generate at step 3 changes nothing in st.session_state (the step is
\* still 3, the record is the same, no other key appears); the run ends
\* with the document offered for download or with the renderer's exception.
C6_GenerateNoStateChange ==
    [][Generate =>
        /\ session_state' = session_state
        /\ step' = 3
        /\ DOMAIN session_state' = {"step", "responses"}
        /\ (download' # None \/ exception' # None)]_vars

\* C6 witness: Generate has run and the document is offered for download
C6_Witness ==
    /\ step = 3
    /\ download # None
    /\ download.data.t = "BytesIO"

\* C7 (handler): in every reachable step-2 state, Back with any form
\* content ends on step 1 with the record exactly as it was, the step-1
\* values still in it.
C7_BackHandler ==
    step = 2 =>
        \A main_concern \in ConcernValues, contact_pref \in ContactPrefValues,
           email \in EmailValues, phone \in PhoneValues,
           interest_confirm \in ConfirmValues :
            LET page == Run(session_state,
                            BackEvent(main_concern, contact_pref, email,
                                      phone, interest_confirm), AnyDate)
            IN  /\ page.session_state.step = 1
                /\ page.session_state.responses = responses
                /\ DOMAIN page.session_state.responses = Step1Keys

\* C7: Back at step 2 moves the step indicator to 1 and leaves the record
\* unchanged, the step-1 values of the preceding Continue still in it.
C7_BackKeepsRecord ==
    /\ []C7_BackHandler
    /\ [][(step = 2 /\ step' = 1) =>
            /\ responses' = responses
            /\ Step1Keys \subseteq DOMAIN responses']_vars

\* C7 witness: back on step 1 with the step-1 answers in the record
C7_Witness ==
    /\ step = 1
    /\ DOMAIN responses = Step1Keys

Contains(text, pattern) ==
    \E i \in 0..(Len(text) - Len(pattern)) :
        SubSeq(text, i + 1, i + Len(pattern)) = pattern

SummaryFields == {"situation", "timeline", "complexity", "main_concern",
                  "contact_pref", "email", "phone"}

Absent(x) == x = None \/ x = PyStr(<<>>)

\* C9 as stated: the text of a generated document contains the date string,
\* the value of every non-absent field, and "Not provided" for each absent
\* optional field (main_concern, email, phone).
C9_NotProvidedForEveryAbsentField ==
    [][\A today \in Dates :
        (GenerateOn(today) /\ download' # None) =>
            LET body == download'.data.body
            IN  /\ Contains(body, strftime(today))
                /\ \A k \in SummaryFields :
                     ~Absent(responses[k]) => Contains(body, Format(responses[k]))
                /\ \A k \in {"main_concern", "email", "phone"} :
                     Absent(responses[k]) => Contains(body, <<"Not provided">>)]_vars

\* C9 amended: the text of a generated document contains the date line, the
\* lines of situation, timeline, complexity and contact_pref with the
\* record's values, the record's main_concern, email and phone on their
\* lines when they are not empty or None, "Not provided" on the line of an
\* email or phone that is None, and "None provided" on the line of an empty
\* main_concern.
C9_DocumentText ==
    [][\A today \in Dates :
        (GenerateOn(today) /\ download' # None) =>
            LET body == download'.data.body
                r == responses
            IN  /\ Contains(body, <<"Date: ">> \o strftime(today))
                /\ Contains(body, <<"Reason for reaching out: ">> \o r.situation.v)
                /\ Contains(body, <<"Timeline: ">> \o r.timeline.v)
                /\ Contains(body, <<"Complexity level: ">>
                                  \o IntStr(r.complexity.v) \o <<"/5">>)
                /\ Contains(body, <<"Preferred contact: ">> \o r.contact_pref.v)
                /\ Contains(body, <<"Main concern: ">> \o
                        (IF r.main_concern.v = <<>> THEN <<"None provided">>
                         ELSE r.main_concern.v) \o <<"\n">>)
                /\ Contains(body, <<"Email: ">> \o
                        (IF r.email = None THEN <<"Not provided">>
                         ELSE r.email.v) \o <<"\n">>)
                /\ Contains(body, <<"Phone: ">> \o
                        (IF r.phone = None THEN <<"Not provided">>
                         ELSE r.phone.v) \o <<"\n">>)]_vars

\* C9 witness: a document was generated from a record with an empty
\* main_concern, no email and a phone number
C9_Witness ==
    /\ step = 3
    /\ download # None
    /\ responses.main_concern = PyStr(<<>>)
    /\ responses.email = None
    /\ responses.phone # None

\* C10: a confirmed Step-2 Submit with an empty main_concern stores None,
\* not an empty string: the record at step 3 never holds main_concern = "".
C10_EmptyConcernStoredAsNone ==
    step = 3 => responses.main_concern # PyStr(<<>>)

\* a text entry of the record holds a character latin-1 cannot encode
HasNonLatin1(resp) ==
    \E k \in DOMAIN resp : resp[k].t = "str" /\ ~encodable(resp[k].v)

C12_StartOverAlwaysAvailable ==
    step = 3 => ENABLED (StartOver /\ step' = 1)

StepChanges == {<<1, 2>>, <<2, 1>>, <<2, 3>>, <<3, 1>>}

\* C13: the step indicator is always 1, 2 or 3, and a step of the program
\* changes it only from 1 to 2 (by Continue), from 2 to 1 (by Back), from 2
\* to 3 (with interest_confirm = True stored) or from 3 to 1 (by Start
\* Over); never from 1 to 3 or from 3 to 2.
C13_StepTransitions ==
    /\ [](step \in {1, 2, 3})
    /\ [][step' # step =>
            /\ <<step, step'>> \in StepChanges
            /\ (step = 1 => Continue)
            /\ (step = 2 /\ step' = 1 => Back)
            /\ (step' = 3 => responses'.interest_confirm = PyBool(TRUE))
            /\ (step = 3 => StartOver)]_vars

\* C13 witness: the wizard has moved on from step 1 and shows the step-2
\* form without a warning
C13_Witness ==
    /\ step = 2
    /\ warning = FALSE
    /\ exception = None

\* C14: while the step indicator is 1 or 2 the record holds no step-2 field
\* (only step-1 fields, if any), so nothing typed into the step-2 form before
\* Back or a rejected Submit is in the record; and the record changes only
\* on the step from 1 to 2 and on the step from 2 to 3.
C14_RecordChangesOnlyAtSubmit ==
    /\ [](step \in {1, 2} =>
            /\ DOMAIN responses \cap Step2Keys = {}
            /\ DOMAIN responses \subseteq Step1Keys)
    /\ [][responses' # responses =>
            \/ step = 1 /\ step' = 2
            \/ step = 2 /\ step' = 3]_vars

\* C14 witness: a Submit was rejected on step 2 and the record still holds
\* the step-1 answers only
C14_Witness ==
    /\ warning = TRUE
    /\ DOMAIN responses \cap Step2Keys = {}
    /\ responses.situation = PyStr(<<Situations[2]>>)

\* C15: a Continue pressed on step 1 when the record already holds answers
\* (the user went Back) replaces situation, timeline and complexity as a
\* whole by the submitted values, and no step taken from step 2 or step 3
\* changes these three values: the record at step 3 holds the values of the
\* most recent Continue, never a mixture.
C15_LatestContinueWins ==
    /\ []((step = 1 /\ responses # EmptyDict) =>
            \A situation \in SituationValues, timeline \in TimelineValues,
               complexity \in ComplexityValues :
                Run(session_state,
                    ContinueEvent(situation, timeline, complexity),
                    AnyDate).session_state.responses
                = [situation |-> situation, timeline |-> timeline,
                   complexity |-> complexity])
    /\ [][step # 1 =>
            \A k \in Step1Keys :
                k \in DOMAIN responses' /\ responses'[k] = responses[k]]_vars

\* C15 witness: back on step 1 with earlier answers in the record, which
\* the next Continue overwrites
C15_Witness ==
    /\ step = 1
    /\ responses # EmptyDict
    /\ responses.situation = PyStr(<<Situations[3]>>)
    /\ responses.complexity = PyInt(2)

=============================================================================
